---- MODULE Spec2Model ----
(***************************************************************************)
(* Model of eldroid-ssg: the component renderer (src/src/html.rs), the     *)
(* batch build (process_files in src/src/main.rs) and the development      *)
(* server (src/src/watcher.rs).                                            *)
(*                                                                         *)
(* Strings that the code takes apart (component names, paths) are          *)
(* sequences of one-character strings; the extension ".html" is one        *)
(* element.  Markup is a sequence of tokens: static text, component tags   *)
(* and the placeholder comments the renderer emits.                        *)
(***************************************************************************)
EXTENDS Integers, Sequences, FiniteSets, TLC

VARIABLES
    files,          \* components tree: path -> content of the file
    unreadable,     \* paths that exist but whose read fails
    pages,          \* job -> content of the input file of that job
    sources,        \* job -> path of the input file of that job
    file_results,   \* job -> <<>> while the job runs, then the Result it
                    \* returned: its out_path or its error
    content_cache,  \* HtmlGenerator.content_cache: name -> expanded markup
    path_cache,     \* HtmlGenerator.path_cache: key -> <<>> or <<path>>
    holder,         \* <<>> or <<j>>: the job that has the generator borrowed
    visited,        \* the HashSet made by the top-level render in progress
    stack,          \* active generate_html calls, outermost first
    jpc,            \* job -> position of the job in the closure of process_files
    processed,      \* job -> processed_content of the job
    written,        \* output directory: path -> content of the file there
    processed_files,\* the shared Vec of out_paths pushed by the jobs
    batch,          \* "running", "ok" or "err": what process_files returned
    errors,         \* the errors process_files logged
    edits,          \* number of changes made to component files so far
    began,          \* job -> value of edits when the job's render began
    found,          \* <<>> or the last call of find_component_file: its
                    \* arguments and the value it returned
    probes,         \* <<dir, name>> -> number of times find_component_file
                    \* went to the file system for it
    site,           \* site-wide generation: whether it is enabled, what the
                    \* generators were given, and what made process_files fail
    server,         \* position of main in its watch branch (main.rs:146-166)
    builds,         \* number of calls of process_files so far
    built_through,  \* number of accepted events when the last build began
    since_last,     \* ms from last_event to now, counted up to the debounce
    events,         \* number of low-level events handed to the callback
    accepted,       \* number of events that passed the debounce
    log,            \* every FileChange the channel took, in order
    changed_files,  \* DevServer.changed_files
    cpc,            \* client -> "none", "recv", "send" or "done"
    sub,            \* client -> channel position when it subscribed
    next,           \* client -> the receiver's position in the channel
    cur,            \* client -> the message its task is sending, with the
                    \* channel position of the change it was made from
    sock,           \* client -> what was sent on its socket, in order
    open,           \* client -> the peer still has the connection open
    prev,           \* the last low-level event handed to the callback: its
                    \* kind, its age in ms counted up to the debounce, and
                    \* the number of changes it published
    dirs,           \* directory of the server -> "missing", "kept" (it was
                    \* there when start was called and is as it was) or
                    \* "created" (start made it)
    watched,        \* the directories the watcher is attached to
    callback,       \* <<>>, or the run of the watcher's callback that is
                    \* publishing an event: the kind it chose, the paths
                    \* still to do, how many it has published, its place in
                    \* the loop body, and whether the path at hand is
                    \* recorded
    since_clear     \* the paths of the events accepted since the server
                    \* was made or clear_changed_files was last called:
                    \* `after` those of events accepted after it, `upto`
                    \* those also of an event being published when it was
                    \* called

buildVars == <<files, unreadable, pages, sources, file_results, content_cache, path_cache, holder,
               visited, stack, jpc, processed, written, processed_files, batch,
               errors, edits, began, found, probes, site>>

watchVars == <<server, builds, built_through, since_last, events, accepted,
               log, changed_files, cpc, sub, next, cur, sock, open, prev,
               dirs, watched, callback, since_clear>>

vars == <<buildVars, watchVars>>

----------------------------------------------------------------------------
(* Bounds of the model *)

MaxJobs == 2
MaxPageTags == 2
MaxCompTags == 2
MaxEdits == 1
MaxBad == 1
MaxClients == 2
MaxEvents == 2
MaxPaths == 2
MaxRecv == 2
BurstExtra == 1
TickMs == 50
MaxStems == 2

----------------------------------------------------------------------------
(* Strings *)

None == <<>>
Some(x) == <<x>>

Ext == ".html"
ComponentsDir == <<"r">>

\* html.rs:25-27
normalize_component_name(name) ==
    [i \in 1..Len(name) |-> IF name[i] = "\\" THEN "/" ELSE name[i]]

StartsWithSlash(s) == Len(s) > 0 /\ s[1] = "/"

\* html.rs:29-39
resolve_component_path(base_dir, current_component_dir, component_name) ==
    LET normalized_name == normalize_component_name(component_name)
    IN  IF StartsWithSlash(normalized_name)
        THEN base_dir \o <<"/">> \o SubSeq(normalized_name, 2, Len(normalized_name))
        ELSE IF current_component_dir # None
             THEN current_component_dir[1] \o <<"/">> \o normalized_name
             ELSE base_dir \o <<"/">> \o normalized_name

\* position of the last separator of a path, 0 when there is none
LastSlash(p) ==
    LET S == {i \in 1..Len(p) : p[i] = "/"}
    IN  IF S = {} THEN 0 ELSE CHOOSE i \in S : \A k \in S : k <= i

\* Path::parent
Parent(p) == SubSeq(p, 1, LastSlash(p) - 1)

\* Path::file_stem: the last segment without its extension
FileStem(p) ==
    LET last == SubSeq(p, LastSlash(p) + 1, Len(p))
    IN  IF Len(last) > 1 /\ last[Len(last)] = Ext
        THEN SubSeq(last, 1, Len(last) - 1)
        ELSE last

ToLowerChar(c) ==
    CASE c = "A" -> "a"
      [] c = "B" -> "b"
      [] c = "C" -> "c"
      [] OTHER -> c

\* str::eq_ignore_ascii_case
EqIgnoreAsciiCase(s, t) ==
    /\ Len(s) = Len(t)
    /\ \A i \in 1..Len(s) : ToLowerChar(s[i]) = ToLowerChar(t[i])

----------------------------------------------------------------------------
(* Markup *)

Text(owner, part, version) == [t |-> "text", n |-> owner, q |-> part, v |-> version]
Tag(name, form) == [t |-> "tag", n |-> name, q |-> form, v |-> 0]
Circular(name) == [t |-> "circ", n |-> name, q |-> "", v |-> 0]
NotFound(name) == [t |-> "notfound", n |-> name, q |-> "", v |-> 0]
ReadFailed(name) == [t |-> "readerr", n |-> name, q |-> "", v |-> 0]

IsTag(tok) == tok.t = "tag"

HasTag(s) == \E i \in 1..Len(s) : IsTag(s[i])

\* COMPONENT_TAG_REGEX.captures: the leftmost match
FirstTag(s) ==
    LET i == CHOOSE i \in 1..Len(s) :
                 IsTag(s[i]) /\ \A k \in 1..(i - 1) : ~IsTag(s[k])
    IN  s[i]

\* str::replace: every occurrence of the matched text is replaced
RECURSIVE Replace(_, _, _)
Replace(s, tok, rep) ==
    IF s = <<>> THEN <<>>
    ELSE (IF Head(s) = tok THEN rep ELSE <<Head(s)>>) \o Replace(Tail(s), tok, rep)

Count(s, kind) == Cardinality({i \in 1..Len(s) : s[i].t = kind})

----------------------------------------------------------------------------
(* The universe of inputs *)

InputDir == <<"i">>
CompNames == {<<"a">>, <<"b">>, <<"c">>}
Forms == {"d", "s"}

CompPath(n) == ComponentsDir \o <<"/">> \o n \o <<Ext>>
PagePath(j) == InputDir \o <<"/">> \o <<"p", ToString(j)>> \o <<Ext>>

OutputDir == <<"o">>
Markdown == ".md"

\* main.rs:240, 291: the extension of the file is md
IsMarkdown(file_path) == file_path[Len(file_path)] = Markdown

\* Path::with_extension
set_extension(path, ext) == SubSeq(path, 1, Len(path) - 1) \o <<ext>>

\* Path::strip_prefix of a path below the prefix
strip_prefix(path, prefix) == SubSeq(path, Len(prefix) + 2, Len(path))

\* main.rs:284-295: the path of the file below the input directory, below
\* the output directory, with the extension html for a markdown file
out_path(file_path) ==
    LET mirrored == OutputDir \o <<"/">> \o strip_prefix(file_path, InputDir)
    IN  IF IsMarkdown(file_path) THEN set_extension(mirrored, Ext) ELSE mirrored

\* markdown.rs:316: the layout of a post
LayoutPath == <<"components", "/", "blog_layout", Ext>>

\* markdown.rs:128-194: the text of the post becomes markup; raw markup in
\* it, a component tag as well, is passed on as it is (the `_` arm)
markdown_to_html(content) ==
    [i \in 1..Len(content) |->
        IF content[i].t = "text"
        THEN [content[i] EXCEPT !.q = IF @ = "head" THEN "html head"
                                      ELSE "html tail"]
        ELSE content[i]]

\* markdown.rs:246-323 with 54-61: the converted post in the place of
\* @{yield} in the layout
process_post(content) ==
    <<[t |-> "text", n |-> LayoutPath, q |-> "head", v |-> 0]>>
        \o markdown_to_html(content)
        \o <<[t |-> "text", n |-> LayoutPath, q |-> "tail", v |-> 0]>>

\* a job's Result
Ok(path) == [ok |-> TRUE, v |-> path]
Err(text) == [ok |-> FALSE, v |-> text]

\* The text of an anyhow::Error made by `?` from a std::io::Error or a
\* StripPrefixError (main.rs:238, 285, 287, 297): the text of the cause,
\* which holds no path
ErrorText(file_path) == <<"os error">>

SeqsUpTo(S, n) == UNION {[1..k -> S] : k \in 0..n}

\* a file: its own static text around the component tags it holds
FileContent(path, tags, version) ==
    <<Text(path, "head", version)>> \o tags \o <<Text(path, "tail", version)>>

TagsOf(s) == SelectSeq(s, IsTag)

Insert(cache, key, value) ==
    [k \in DOMAIN cache \cup {key} |-> IF k = key THEN value ELSE cache[k]]

----------------------------------------------------------------------------
(* ComponentResolver: find_component_file, html.rs:41-88 *)

\* html.rs:47-50
CacheKey(current_component_dir, component_name) ==
    IF current_component_dir # None
    THEN current_component_dir[1] \o <<":">> \o component_name
    ELSE component_name

\* html.rs:69-84: the files of the tree whose stem equals the name ignoring case
WalkMatches(fs, component_name) ==
    {p \in DOMAIN fs : EqIgnoreAsciiCase(FileStem(p), component_name)}

\* the lookup never finds the key
CachedPath_Miss(pcache, current_component_dir, component_name) == None

\* html.rs:52: path_cache.get(&cache_key), None when the key has no entry
CachedPath(pcache, current_component_dir, component_name) ==
    LET cache_key == CacheKey(current_component_dir, component_name)
    IN  IF cache_key \in DOMAIN pcache THEN Some(pcache[cache_key]) ELSE None

\* html.rs:56-87: what the file system answers: the exact path when it
\* exists, else any file of the walk whose stem matches (the walk's order is
\* the file system's, so any matching entry can be the first), else nothing
ProbeResults(fs, current_component_dir, component_name) ==
    LET with_extension ==
            resolve_component_path(ComponentsDir, current_component_dir,
                                   component_name) \o <<Ext>>
    IN  IF with_extension \in DOMAIN fs THEN {Some(with_extension)}
        ELSE IF WalkMatches(fs, component_name) # {}
             THEN {Some(p) : p \in WalkMatches(fs, component_name)}
             ELSE {None}

\* The values find_component_file can return.
FindResults(fs, pcache, current_component_dir, component_name) ==
    LET cached == CachedPath(pcache, current_component_dir, component_name)
    IN  IF cached # None THEN {cached[1]}
        ELSE ProbeResults(fs, current_component_dir, component_name)

\* html.rs:52-56: the file system is gone to when the cache has no entry
CountProbe(counts, pcache, current_component_dir, component_name) ==
    LET pair == <<current_component_dir, component_name>>
    IN  IF CachedPath(pcache, current_component_dir, component_name) # None
        THEN counts
        ELSE Insert(counts, pair, IF pair \in DOMAIN counts THEN counts[pair] + 1 ELSE 1)

\* the call and what it returned
Found(pcache, current_component_dir, component_name, r) ==
    <<[dir |-> current_component_dir, name |-> component_name, result |-> r,
       hit |-> CachedPath(pcache, current_component_dir, component_name) # None]>>

\* html.rs:64, 80, 86: the result is recorded under the key
RecordPath(pcache, current_component_dir, component_name, r) ==
    IF CachedPath(pcache, current_component_dir, component_name) # None
    THEN pcache
    ELSE Insert(pcache, CacheKey(current_component_dir, component_name), r)

----------------------------------------------------------------------------
(* TemplateRenderer: HtmlGenerator::generate_html and load_component *)

Top == stack[Len(stack)]
CurTag == FirstTag(Top.result)
CurName == CurTag.n

\* the loop is left after one pass, whatever the text holds
NoMatch_OnePass(result) == TRUE

\* html.rs:178: COMPONENT_TAG_REGEX.captures(..) is None, the while-let
\* loop is left
NoMatch(result) == ~HasTag(result)

Rendering == holder # None /\ stack # <<>>
AtTag == Rendering /\ ~NoMatch(Top.result)

\* html.rs:182
InProgress(vis, component_name) == component_name \in vis

\* the tag is left in the text
MarkCircular_KeepTag(result, tag) == result

\* html.rs:184
MarkCircular(result, tag) == Replace(result, tag, <<Circular(tag.n)>>)

\* html.rs:190
Substitute(result, tag, component_content) == Replace(result, tag, component_content)

\* html.rs:187 (and nothing in generate_html removes a name again)
Enter(vis, component_name) == vis \cup {component_name}

SetTopResult(r) == [stack EXCEPT ![Len(stack)].result = r]

\* html.rs:182-186: the name is in visited
StepCircular ==
    /\ AtTag
    /\ InProgress(visited, CurName)
    /\ stack' = SetTopResult(MarkCircular(Top.result, CurTag))
    /\ UNCHANGED watchVars
    /\ UNCHANGED <<sources, file_results>>
    /\ UNCHANGED <<found, probes, site>>
    /\ UNCHANGED <<files, unreadable, pages, content_cache, path_cache, holder,
                   visited, jpc, processed, written, processed_files, batch,
                   errors, edits, began>>

\* html.rs:187-190 with load_component returning at html.rs:202-205
StepCacheHit ==
    /\ AtTag
    /\ ~InProgress(visited, CurName)
    /\ CurName \in DOMAIN content_cache
    /\ visited' = Enter(visited, CurName)
    /\ stack' = SetTopResult(Substitute(Top.result, CurTag, content_cache[CurName]))
    /\ UNCHANGED watchVars
    /\ UNCHANGED <<sources, file_results>>
    /\ UNCHANGED <<found, probes, site>>
    /\ UNCHANGED <<files, unreadable, pages, content_cache, path_cache, holder,
                   jpc, processed, written, processed_files, batch, errors,
                   edits, began>>

\* html.rs:187-190 with load_component returning at html.rs:223-226
StepNotFound ==
    /\ AtTag
    /\ ~InProgress(visited, CurName)
    /\ CurName \notin DOMAIN content_cache
    /\ \E r \in FindResults(files, path_cache, Top.dir, CurName) :
          /\ r = None
          /\ path_cache' = RecordPath(path_cache, Top.dir, CurName, r)
          /\ found' = Found(path_cache, Top.dir, CurName, r)
    /\ visited' = Enter(visited, CurName)
    /\ stack' = SetTopResult(Substitute(Top.result, CurTag, <<NotFound(CurName)>>))
    /\ UNCHANGED watchVars
    /\ UNCHANGED <<sources, file_results>>
    /\ probes' = CountProbe(probes, path_cache, Top.dir, CurName)
    /\ UNCHANGED site
    /\ UNCHANGED <<files, unreadable, pages, content_cache, holder, jpc,
                   processed, written, processed_files, batch, errors, edits,
                   began>>

\* fs::read_to_string of a resolved path
Readable(fs, bad, path) == path \in DOMAIN fs /\ path \notin bad

\* html.rs:187-190 with load_component returning at html.rs:217-220
StepReadError ==
    /\ AtTag
    /\ ~InProgress(visited, CurName)
    /\ CurName \notin DOMAIN content_cache
    /\ \E r \in FindResults(files, path_cache, Top.dir, CurName) :
          /\ r # None
          /\ ~Readable(files, unreadable, r[1])
          /\ path_cache' = RecordPath(path_cache, Top.dir, CurName, r)
          /\ found' = Found(path_cache, Top.dir, CurName, r)
    /\ visited' = Enter(visited, CurName)
    /\ stack' = SetTopResult(Substitute(Top.result, CurTag, <<ReadFailed(CurName)>>))
    /\ UNCHANGED watchVars
    /\ UNCHANGED <<sources, file_results>>
    /\ probes' = CountProbe(probes, path_cache, Top.dir, CurName)
    /\ UNCHANGED site
    /\ UNCHANGED <<files, unreadable, pages, content_cache, holder, jpc,
                   processed, written, processed_files, batch, errors, edits,
                   began>>

\* html.rs:187-189 with load_component calling generate_html at html.rs:209-213
StepDescend ==
    /\ AtTag
    /\ ~InProgress(visited, CurName)
    /\ CurName \notin DOMAIN content_cache
    /\ \E r \in FindResults(files, path_cache, Top.dir, CurName) :
          /\ r # None
          /\ Readable(files, unreadable, r[1])
          /\ path_cache' = RecordPath(path_cache, Top.dir, CurName, r)
          /\ found' = Found(path_cache, Top.dir, CurName, r)
          /\ stack' = Append(stack, [result |-> files[r[1]],
                                     dir |-> Some(Parent(r[1])),
                                     name |-> CurName])
    /\ visited' = Enter(visited, CurName)
    /\ UNCHANGED watchVars
    /\ UNCHANGED <<sources, file_results>>
    /\ probes' = CountProbe(probes, path_cache, Top.dir, CurName)
    /\ UNCHANGED site
    /\ UNCHANGED <<files, unreadable, pages, content_cache, holder, jpc,
                   processed, written, processed_files, batch, errors, edits,
                   began>>

\* html.rs:192 returning into load_component at html.rs:213-215, then html.rs:190
StepReturn ==
    /\ Rendering
    /\ Len(stack) > 1
    /\ NoMatch(Top.result)
    /\ content_cache' = Insert(content_cache, Top.name, Top.result)
    /\ LET caller == stack[Len(stack) - 1]
       IN  stack' = [SubSeq(stack, 1, Len(stack) - 1) EXCEPT ![Len(stack) - 1].result =
                        Substitute(caller.result, FirstTag(caller.result), Top.result)]
    /\ UNCHANGED watchVars
    /\ UNCHANGED <<sources, file_results>>
    /\ UNCHANGED <<found, probes, site>>
    /\ UNCHANGED <<files, unreadable, pages, path_cache, holder, visited, jpc,
                   processed, written, processed_files, batch, errors, edits,
                   began>>

----------------------------------------------------------------------------
(* BuildOrchestrator: process_files, main.rs:215-327 *)

Jobs == DOMAIN pages

Finished(j) == jpc[j] \in {"done", "failed"}

\* main.rs:238: fs::read_to_string(file_path)? succeeds
JobRead(j) ==
    /\ batch = "running"
    /\ jpc[j] = "start"
    /\ jpc' = [jpc EXCEPT ![j] = "read"]
    /\ UNCHANGED watchVars
    /\ UNCHANGED <<sources, file_results>>
    /\ UNCHANGED <<found, probes, site>>
    /\ UNCHANGED <<files, unreadable, pages, content_cache, path_cache, holder,
                   visited, stack, processed, written, processed_files, batch,
                   errors, edits, began>>

\* main.rs:238: fs::read_to_string(file_path)? returns the error
JobReadFail(j) ==
    /\ batch = "running"
    /\ jpc[j] = "start"
    /\ jpc' = [jpc EXCEPT ![j] = "failed"]
    /\ file_results' = [file_results EXCEPT ![j] = Err(ErrorText(sources[j]))]
    /\ UNCHANGED watchVars
    /\ UNCHANGED sources
    /\ UNCHANGED <<found, probes, site>>
    /\ UNCHANGED <<files, unreadable, pages, content_cache, path_cache, holder,
                   visited, stack, processed, written, processed_files, batch,
                   errors, edits, began>>

\* no guard: a job enters while another is inside
Acquire_Unguarded(h, j) == TRUE

\* The guard of the shared generator.  generate_html takes &mut self
\* (html.rs:169-175), so a top-level call needs the generator to itself; the
\* call that main.rs:247 makes through the Arc is the guard's place.
Acquire(h, j) == h = None

\* main.rs:244-248 entering html.rs:237-238: a new visited set, no current directory
JobBeginRender(j) ==
    /\ batch = "running"
    /\ jpc[j] = "read"
    /\ ~IsMarkdown(sources[j])
    /\ Acquire(holder, j)
    /\ holder' = Some(j)
    /\ visited' = {}
    /\ stack' = <<[result |-> pages[j], dir |-> None, name |-> <<>>]>>
    /\ jpc' = [jpc EXCEPT ![j] = "render"]
    /\ began' = [began EXCEPT ![j] = edits]
    /\ UNCHANGED watchVars
    /\ UNCHANGED <<sources, file_results>>
    /\ UNCHANGED <<found, probes, site>>
    /\ UNCHANGED <<files, unreadable, pages, content_cache, path_cache,
                   processed, written, processed_files, batch, errors, edits>>

\* markdown.rs:246-323 entered from main.rs:241-243: the post is laid out
\* and returned; generate_html is not called
JobProcessPost(j) ==
    /\ batch = "running"
    /\ jpc[j] = "read"
    /\ IsMarkdown(sources[j])
    /\ processed' = [processed EXCEPT ![j] = process_post(pages[j])]
    /\ jpc' = [jpc EXCEPT ![j] = "rendered"]
    /\ UNCHANGED watchVars
    /\ UNCHANGED <<sources, file_results>>
    /\ UNCHANGED <<found, probes, site>>
    /\ UNCHANGED <<files, unreadable, pages, content_cache, path_cache, holder,
                   visited, stack, written, processed_files, batch, errors,
                   edits, began>>

\* main.rs:241-243: from_file or process_post returns an error (the second
\* read of the file, its front matter, its date, the layout's read)
JobProcessPostFail(j) ==
    /\ batch = "running"
    /\ jpc[j] = "read"
    /\ IsMarkdown(sources[j])
    /\ jpc' = [jpc EXCEPT ![j] = "failed"]
    /\ file_results' = [file_results EXCEPT ![j] = Err(ErrorText(sources[j]))]
    /\ UNCHANGED watchVars
    /\ UNCHANGED sources
    /\ UNCHANGED <<found, probes, site>>
    /\ UNCHANGED <<files, unreadable, pages, content_cache, path_cache, holder,
                   visited, stack, processed, written, processed_files, batch,
                   errors, edits, began>>

\* html.rs:192 of the top-level call returning to main.rs:244-248
JobEndRender(j) ==
    /\ holder = Some(j)
    /\ Len(stack) = 1
    /\ NoMatch(Top.result)
    /\ processed' = [processed EXCEPT ![j] = Top.result]
    /\ holder' = None
    /\ stack' = <<>>
    /\ visited' = {}
    /\ jpc' = [jpc EXCEPT ![j] = "rendered"]
    /\ UNCHANGED watchVars
    /\ UNCHANGED <<sources, file_results>>
    /\ UNCHANGED <<found, probes, site>>
    /\ UNCHANGED <<files, unreadable, pages, content_cache, path_cache, written,
                   processed_files, batch, errors, edits, began>>

\* main.rs:284-299: the output is written and its path pushed
JobWrite(j) ==
    /\ jpc[j] = "rendered"
    /\ written' = Insert(written, out_path(sources[j]), processed[j])
    /\ processed_files' = Append(processed_files, out_path(sources[j]))
    /\ jpc' = [jpc EXCEPT ![j] = "done"]
    /\ file_results' = [file_results EXCEPT ![j] = Ok(out_path(sources[j]))]
    /\ UNCHANGED watchVars
    /\ UNCHANGED sources
    /\ UNCHANGED <<found, probes, site>>
    /\ UNCHANGED <<files, unreadable, pages, content_cache, path_cache, holder,
                   visited, stack, processed, batch, errors, edits, began>>

\* main.rs:285-297: strip_prefix, create_dir_all or fs::write returns the error
JobWriteFail(j) ==
    /\ jpc[j] = "rendered"
    /\ jpc' = [jpc EXCEPT ![j] = "failed"]
    /\ file_results' = [file_results EXCEPT ![j] = Err(ErrorText(sources[j]))]
    /\ UNCHANGED watchVars
    /\ UNCHANGED sources
    /\ UNCHANGED <<found, probes, site>>
    /\ UNCHANGED <<files, unreadable, pages, content_cache, path_cache, holder,
                   visited, stack, processed, written, processed_files, batch,
                   errors, edits, began>>

\* the batch returns as soon as one job has failed
AllJoined_FailFast(pc) ==
    \/ \A j \in DOMAIN pc : pc[j] \in {"done", "failed"}
    \/ \E j \in DOMAIN pc : pc[j] = "failed"

\* main.rs:234-301: collect() into a Vec of results waits for every job
AllJoined(pc) == \A j \in DOMAIN pc : pc[j] \in {"done", "failed"}

\* main.rs:304-306: the errors among the results, in the order of the files
Errors(results) ==
    LET failed == SelectSeq([j \in 1..Len(results) |-> j],
                            LAMBDA j : ~results[j].ok)
    IN  [i \in 1..Len(failed) |-> results[failed[i]].v]

\* the generators run whenever site-wide generation is enabled
Generates_DespiteErrors(enabled, errs) == enabled

\* main.rs:308-318: the generators are reached when no job failed and
\* site-wide generation is enabled
Generates(enabled, errs) == enabled /\ errs = <<>>

\* main.rs:320-322: a generator can return an I/O error
SiteOutcomes(generates) == IF generates THEN {"none", "seo"} ELSE {"none"}

\* main.rs:232: load_posts()? returns the error before any job is started
LoadPostsFail ==
    /\ batch = "running"
    /\ \A j \in Jobs : jpc[j] = "start"
    /\ batch' = "err"
    /\ site' = [site EXCEPT !.failure = "posts"]
    /\ UNCHANGED watchVars
    /\ UNCHANGED <<sources, file_results>>
    /\ UNCHANGED <<found, probes>>
    /\ UNCHANGED <<files, unreadable, pages, content_cache, path_cache, holder,
                   visited, stack, jpc, processed, written, processed_files,
                   errors, edits, began>>

\* main.rs:301-326: collect() has every result; the errors are filtered out,
\* then the sitemap, RSS and robots generators are given processed_files
Collect ==
    /\ batch = "running"
    /\ AllJoined(jpc)
    /\ errors' = Errors(file_results)
    /\ \E outcome \in SiteOutcomes(Generates(site.seo, errors')) :
          /\ site' = [site EXCEPT
                         !.given = IF Generates(site.seo, errors')
                                   THEN Some(processed_files) ELSE None,
                         !.failure = outcome]
          /\ batch' = IF errors' # <<>> \/ outcome # "none" THEN "err" ELSE "ok"
    /\ UNCHANGED watchVars
    /\ UNCHANGED <<sources, file_results>>
    /\ UNCHANGED <<found, probes>>
    /\ UNCHANGED <<files, unreadable, pages, content_cache, path_cache, holder,
                   visited, stack, jpc, processed, written, processed_files,
                   edits, began>>

----------------------------------------------------------------------------
(* The environment: a component file is edited while the program runs *)

Bump(content) ==
    [i \in 1..Len(content) |->
        IF content[i].t = "text" THEN [content[i] EXCEPT !.v = @ + 1] ELSE content[i]]

EditComponent(p) ==
    /\ edits < MaxEdits
    /\ p \in DOMAIN files
    /\ files' = [files EXCEPT ![p] = Bump(@)]
    /\ edits' = edits + 1
    /\ UNCHANGED watchVars
    /\ UNCHANGED <<sources, file_results>>
    /\ UNCHANGED <<found, probes, site>>
    /\ UNCHANGED <<unreadable, pages, content_cache, path_cache, holder, visited,
                   stack, jpc, processed, written, processed_files, batch,
                   errors, began>>

----------------------------------------------------------------------------
(* Initial states *)

CompTags == {Tag(n, "d") : n \in CompNames}
PageTags == {Tag(n, f) : n \in CompNames, f \in Forms}

Clients == 1..MaxClients

\* watcher.rs:41-44: the directories a DevServer is made with
Directories == {"input", "output", "components"}

\* no low-level event has been handed to the callback yet
NoEvent == [kind |-> "none", age |-> 0, published |-> 0]

\* the development server is not in use
WatchIdle ==
    /\ server = "off"
    /\ builds = 0
    /\ built_through = 0
    /\ since_last = 0
    /\ events = 0
    /\ accepted = 0
    /\ log = <<>>
    /\ changed_files = {}
    /\ cpc = [c \in Clients |-> "none"]
    /\ sub = [c \in Clients |-> 0]
    /\ next = [c \in Clients |-> 0]
    /\ cur = [c \in Clients |-> <<>>]
    /\ sock = [c \in Clients |-> <<>>]
    /\ open = [c \in Clients |-> FALSE]
    /\ prev = NoEvent
    /\ dirs = [d \in Directories |-> "kept"]
    /\ watched = {}
    /\ callback = <<>>
    /\ since_clear = [after |-> {}, upto |-> {}]

\* the state after HtmlGenerator::new() (html.rs:102-108) and the start of
\* process_files over the enumerated content files, the components tree
\* holding the files fs of which those in bad cannot be read
InitTree(njobs, firstTagSeqs, otherTagSeqs, fs, bad, seo) ==
    /\ files = fs
    /\ unreadable = bad
    /\ pages \in [1..njobs -> {FileContent(<<"page">>, ts, 0) :
                                  ts \in firstTagSeqs \cup otherTagSeqs}]
    /\ sources = [j \in 1..njobs |-> PagePath(j)]
    /\ file_results = [j \in 1..njobs |-> <<>>]
    /\ TagsOf(pages[1]) \in firstTagSeqs
    /\ \A j \in 2..njobs : TagsOf(pages[j]) \in otherTagSeqs
    /\ content_cache = <<>>
    /\ path_cache = <<>>
    /\ holder = None
    /\ visited = {}
    /\ stack = <<>>
    /\ jpc = [j \in 1..njobs |-> "start"]
    /\ processed = [j \in 1..njobs |-> <<>>]
    /\ written = <<>>
    /\ processed_files = <<>>
    /\ batch = "running"
    /\ errors = <<>>
    /\ edits = 0
    /\ began = [j \in 1..njobs |-> 0]
    /\ found = <<>>
    /\ probes = <<>>
    /\ site = [seo |-> seo, given |-> None, failure |-> "none"]
    /\ WatchIdle

\* the same over a flat components tree: the files of the names in present
\* with the tags of graph, those of the names in bad unreadable
InitWith(njobs, firstTagSeqs, otherTagSeqs, present, bad, graph, seo) ==
    InitTree(njobs, firstTagSeqs, otherTagSeqs,
             [p \in {CompPath(n) : n \in present} |->
                 FileContent(p, graph[FileStem(p)], 1)],
             {CompPath(n) : n \in bad}, seo)

RECURSIVE SumLen(_, _)
SumLen(g, S) ==
    IF S = {} THEN 0
    ELSE LET n == CHOOSE n \in S : TRUE IN Len(g[n]) + SumLen(g, S \ {n})

\* the inclusion graphs with at most maxTags tags in all component files together
Graphs(maxTags) ==
    {g \in [CompNames -> SeqsUpTo(CompTags, maxTags)] : SumLen(g, CompNames) <= maxTags}

\* Pages with at most MaxPageTags tags.  Names and quoting forms are
\* interchangeable, so the first tag is fixed to one representative.
\* a page that includes the representative component once
OnePageTagSeqs == {<<Tag(<<"a">>, "d")>>}

PageTagSeqs ==
    {ts \in SeqsUpTo(PageTags, MaxPageTags) : Len(ts) > 0 => ts[1] = Tag(<<"a">>, "d")}

\* the component trees within the bounds: the inclusion graph, the component
\* files that are missing and those that cannot be read
Trees ==
    {t \in [graph : Graphs(MaxCompTags), missing : SUBSET CompNames,
            bad : SUBSET CompNames] :
        /\ Cardinality(t.missing) + Cardinality(t.bad) <= MaxBad
        /\ t.missing \cap t.bad = {}}

\* a batch whose first content file holds up to MaxPageTags tags and whose
\* other files include one component, over any component tree within the
\* bounds
Init ==
    \E t \in Trees, seo \in BOOLEAN :
        InitWith(MaxJobs, PageTagSeqs, OnePageTagSeqs, CompNames \ t.missing,
                 t.bad, t.graph, seo)

Next ==
    \/ LoadPostsFail
    \/ \E j \in Jobs : JobRead(j)
    \/ \E j \in Jobs : JobReadFail(j)
    \/ \E j \in Jobs : JobBeginRender(j)
    \/ StepCircular
    \/ StepCacheHit
    \/ StepNotFound
    \/ StepReadError
    \/ StepDescend
    \/ StepReturn
    \/ \E j \in Jobs : JobEndRender(j)
    \/ \E j \in Jobs : JobWrite(j)
    \/ \E j \in Jobs : JobWriteFail(j)
    \/ Collect

Spec == Init /\ [][Next]_vars

\* a batch of MaxJobs content files of at most one tag over a component tree
\* that is edited while the program runs; names being interchangeable, the
\* tag of the first file is fixed to one representative
BuildInit ==
    \E t \in Trees, seo \in BOOLEAN :
        InitWith(MaxJobs, {<<>>, <<Tag(<<"a">>, "d")>>}, SeqsUpTo(CompTags, 1),
                 CompNames \ t.missing, t.bad, t.graph, seo)

BuildNext ==
    \/ Next
    \/ \E p \in DOMAIN files : EditComponent(p)

BuildSpec == BuildInit /\ [][BuildNext]_vars

\* A running call of generate_html takes its next step: the renderer is
\* sequential code that waits for nothing.
RenderStep ==
    \/ StepCircular
    \/ StepCacheHit
    \/ StepNotFound
    \/ StepReadError
    \/ StepDescend
    \/ StepReturn
    \/ \E j \in Jobs : JobEndRender(j)

FairSpec == Init /\ [][Next]_vars /\ WF_vars(RenderStep)

\* main.rs:27-40: the content files of an input directory that holds, for
\* each of MaxStems names, a markup page and a markdown post
ContentFiles ==
    {InputDir \o <<"/">> \o <<"p", ToString(k)>> \o <<ext>> :
        k \in 1..MaxStems, ext \in {Ext, Markdown}}

\* the orders in which the directory can list them
Listings ==
    {l \in [1..Cardinality(ContentFiles) -> ContentFiles] :
        \A i, k \in DOMAIN l : l[i] = l[k] => i = k}

\* A batch over that directory: each file holds its own text around a tag
\* of the one component, a file without tags.
SiteInit ==
    /\ files = [p \in {CompPath(<<"a">>)} |-> FileContent(p, <<>>, 1)]
    /\ unreadable = {}
    /\ sources = CHOOSE l \in Listings : TRUE
    /\ pages = [j \in DOMAIN sources |->
                  FileContent(sources[j], <<Tag(<<"a">>, "d")>>, 0)]
    /\ file_results = [j \in DOMAIN sources |-> <<>>]
    /\ content_cache = <<>>
    /\ path_cache = <<>>
    /\ holder = None
    /\ visited = {}
    /\ stack = <<>>
    /\ jpc = [j \in DOMAIN sources |-> "start"]
    /\ processed = [j \in DOMAIN sources |-> <<>>]
    /\ written = <<>>
    /\ processed_files = <<>>
    /\ batch = "running"
    /\ errors = <<>>
    /\ edits = 0
    /\ began = [j \in DOMAIN sources |-> 0]
    /\ found = <<>>
    /\ probes = <<>>
    /\ site \in {[seo |-> b, given |-> None, failure |-> "none"] : b \in BOOLEAN}
    /\ WatchIdle

SiteNext ==
    \/ LoadPostsFail
    \/ \E j \in Jobs : JobRead(j)
    \/ \E j \in Jobs : JobReadFail(j)
    \/ \E j \in Jobs : JobBeginRender(j)
    \/ \E j \in Jobs : JobProcessPost(j)
    \/ \E j \in Jobs : JobProcessPostFail(j)
    \/ StepCacheHit
    \/ StepDescend
    \/ StepReturn
    \/ \E j \in Jobs : JobEndRender(j)
    \/ \E j \in Jobs : JobWrite(j)
    \/ \E j \in Jobs : JobWriteFail(j)
    \/ Collect

SiteSpec == SiteInit /\ [][SiteNext]_vars

\* A components tree with a subdirectory: a component of the same name in
\* both directories, a component that includes its sibling by a relative
\* name, one that includes a component of the root by a root-anchored name,
\* a file whose name differs from its tag in case, and a file that cannot
\* be read.
SubDir == ComponentsDir \o <<"/", "s">>

FileIn(dir, stem) == dir \o <<"/">> \o stem \o <<Ext>>

DirFiles ==
    LET tags == [p \in {FileIn(ComponentsDir, <<"a">>), FileIn(SubDir, <<"a">>),
                        FileIn(SubDir, <<"C">>), FileIn(ComponentsDir, <<"u">>)}
                    |-> <<>>]
                @@ (FileIn(SubDir, <<"b">>) :> <<Tag(<<"a">>, "d")>>)
                @@ (FileIn(SubDir, <<"d">>) :> <<Tag(<<"/", "a">>, "d")>>)
                @@ (FileIn(ComponentsDir, <<"e">>) :> <<Tag(<<"a">>, "d")>>)
    IN  [p \in DOMAIN tags |-> FileContent(p, tags[p], 1)]

DirUnreadable == {FileIn(ComponentsDir, <<"u">>)}

\* the names a page can use: bare, relative with either separator, in
\* another case, holding the separator of the cache key, unreadable, and
\* missing
DirNames ==
    {<<"a">>, <<"s", "/", "b">>, <<"s", "\\", "b">>, <<"s", "/", "d">>, <<"c">>,
     <<"r", ":", "a">>, <<"e">>, <<"u">>, <<"m">>}

DirTags == {Tag(n, "d") : n \in DirNames}

\* a batch of MaxJobs content files over that tree: the first with up to
\* MaxPageTags tags, the others with at most one
DirInit ==
    InitTree(MaxJobs, SeqsUpTo(DirTags, MaxPageTags), SeqsUpTo(DirTags, 1),
             DirFiles, DirUnreadable, FALSE)

DirSpec == DirInit /\ [][Next]_vars

----------------------------------------------------------------------------
(* The inclusion graph of a components tree *)

Range(s) == {s[i] : i \in 1..Len(s)}

Rendered(j) == jpc[j] \in {"rendered", "done"}

\* what the tags of a text in directory dir resolve to with an empty path cache
Targets(fs, dir, content) ==
    UNION {FindResults(fs, <<>>, dir, tok.n) : tok \in Range(TagsOf(content))}

Succ(fs, bad, p) ==
    IF Readable(fs, bad, p)
    THEN {r[1] : r \in Targets(fs, Some(Parent(p)), fs[p]) \ {None}}
    ELSE {}

RECURSIVE ReachFrom(_, _, _)
ReachFrom(fs, bad, S) ==
    LET N == S \cup UNION {Succ(fs, bad, p) : p \in S}
    IN  IF N = S THEN S ELSE ReachFrom(fs, bad, N)

Acyclic(fs, bad) ==
    \A p \in DOMAIN fs : p \notin ReachFrom(fs, bad, Succ(fs, bad, p))

\* every component the page reaches exists and is readable
AllResolvable(fs, bad, page) ==
    LET first == Targets(fs, None, page)
        reach == ReachFrom(fs, bad, {r[1] : r \in first \ {None}})
    IN  /\ None \notin first
        /\ \A p \in reach :
              /\ Readable(fs, bad, p)
              /\ None \notin Targets(fs, Some(Parent(p)), fs[p])

----------------------------------------------------------------------------
(* C1: every top-level render that begins also returns, whatever the       *)
(* inclusion graph: acyclic, self-including, cyclic, or with missing or    *)
(* unreadable components.                                                  *)
C1_RenderTerminates == (holder # None) ~> (holder = None)

\* a render has returned on a tree with a cycle and a bad reference
C1_Witness ==
    \E j \in Jobs :
        /\ Rendered(j)
        /\ Count(processed[j], "circ") > 0
        /\ Count(processed[j], "notfound") + Count(processed[j], "readerr") > 0

(* C2: for an acyclic inclusion graph whose referenced components all      *)
(* exist and are readable, the output of a page holds no circular-         *)
(* dependency and no component-not-found placeholder.                      *)
C2_NoPlaceholderWhenAcyclic ==
    \A j \in Jobs :
        (/\ Rendered(j)
         /\ Acyclic(files, unreadable)
         /\ AllResolvable(files, unreadable, pages[j]))
        => /\ Count(processed[j], "circ") = 0
           /\ Count(processed[j], "notfound") = 0

(* C4: during a top-level render a name is in visited exactly when an      *)
(* expansion of it is in progress on the active chain of calls.            *)
ActiveChain == {stack[i].name : i \in 2..Len(stack)}

C4_VisitedIsActiveChain == Rendering => visited = ActiveChain

----------------------------------------------------------------------------
(* C3: a page that includes once a component lying on an inclusion cycle   *)
(* whose files hold one tag each renders to the static text of every       *)
(* component of the cycle with exactly one circular-dependency placeholder *)
(* at the place where the cycle re-enters.                                 *)

Unversioned(s) == [i \in 1..Len(s) |-> [s[i] EXCEPT !.v = 0]]

OneTag(content) == Len(TagsOf(content)) = 1

\* the file a tag in directory dir names, read with an empty path cache
Target(fs, dir, name) == CHOOSE r \in FindResults(fs, <<>>, dir, name) : TRUE

\* the names met by following the one tag of each file from name on, up to
\* the first name that is met twice
RECURSIVE Chain(_, _, _, _)
Chain(fs, dir, name, seen) ==
    LET r == Target(fs, dir, name)
    IN  IF name \in Range(seen) \/ r = None \/ ~OneTag(fs[r[1]])
        THEN Append(seen, name)
        ELSE Chain(fs, Some(Parent(r[1])), TagsOf(fs[r[1]])[1].n, Append(seen, name))

\* name lies on a cycle of readable files with one tag each
OnCycle(fs, bad, name) ==
    LET c == Chain(fs, None, name, <<>>)
    IN  /\ Len(c) > 1
        /\ c[Len(c)] = name
        /\ \A i \in 1..(Len(c) - 1) :
              LET r == Target(fs, None, c[i])
              IN  r # None /\ Readable(fs, bad, r[1]) /\ OneTag(fs[r[1]])

\* the expansion of the cycle entered at c[i]: each file's text around the
\* expansion of its tag, the placeholder where c[1] comes up again
RECURSIVE Unrolled(_, _, _)
Unrolled(fs, c, i) ==
    IF i = Len(c) THEN <<Circular(c[i])>>
    ELSE LET content == fs[Target(fs, None, c[i])[1]]
         IN  <<content[1]>> \o Unrolled(fs, c, i + 1) \o <<content[Len(content)]>>

C3_Case(j, name) ==
    /\ Rendered(j)
    /\ TagsOf(pages[j]) = <<Tag(name, "d")>>
    /\ OnCycle(files, unreadable, name)

C3_OnePlaceholderOnCycle ==
    \A j \in Jobs : \A name \in CompNames :
        C3_Case(j, name) =>
            Unversioned(processed[j]) =
                Unversioned(<<pages[j][1]>>
                            \o Unrolled(files, Chain(files, None, name, <<>>), 1)
                            \o <<pages[j][Len(pages[j])]>>)

\* one page of a batch came out without the text of a component of the cycle
\* (used to show the case of C3 is met)
C3_Witness ==
    \E j \in Jobs : \E name \in CompNames :
        C3_Case(j, name) /\ Count(processed[j], "circ") = 1

----------------------------------------------------------------------------
(* C5: a render that begins after a component file was changed returns no  *)
(* text of the file's old content: what the caches held of it is gone.     *)

Version(content) == content[1].v

C5_NoStaleContent ==
    \A j \in Jobs :
        (Rendered(j) /\ began[j] = edits) =>
            \A i \in 1..Len(processed[j]) :
                LET tok == processed[j][i]
                IN  (tok.t = "text" /\ tok.n \in DOMAIN files)
                        => tok.v = Version(files[tok.n])

----------------------------------------------------------------------------
(* C6: the jobs of a batch never use the generator's caches at the same    *)
(* time: at most one job is inside a top-level render, it is the holder of *)
(* the generator, and only its steps change the caches.                    *)

InRender == {j \in Jobs : jpc[j] = "render"}

C6_State ==
    /\ Cardinality(InRender) <= 1
    /\ \A j \in Jobs : jpc[j] = "render" <=> holder = Some(j)

C6_Step ==
    (content_cache' # content_cache \/ path_cache' # path_cache)
        => (holder # None /\ holder' = holder /\ jpc' = jpc)

----------------------------------------------------------------------------
(* C7: a failed job stops no other job.  When process_files returns after   *)
(* its jobs, every job has run to its end, every job that did not fail has *)
(* its output in the output directory and its path recorded once, and      *)
(* there is one error per failed job.  The batch fails exactly when a job  *)
(* failed or, with every job done, a site-wide generator failed.           *)

Occurrences(s, x) == Cardinality({i \in 1..Len(s) : s[i] = x})

Failed == {j \in Jobs : jpc[j] = "failed"}

\* the output of a job that is done is written and recorded once
C7_Outputs ==
    \A j \in Jobs : jpc[j] = "done" =>
        /\ out_path(sources[j]) \in DOMAIN written
        /\ written[out_path(sources[j])] = processed[j]
        /\ Occurrences(processed_files, out_path(sources[j])) = 1

\* process_files has returned and its jobs were started
Returned == batch # "running" /\ site.failure # "posts"

C7_AllRun ==
    Returned =>
        /\ \A j \in Jobs : jpc[j] \in {"done", "failed"}
        /\ Len(errors) = Cardinality(Failed)

\* the claim as stated: the batch fails if and only if a job failed
C7_FailsIffJobFailed ==
    C7_Outputs /\ C7_AllRun /\ (Returned => (batch = "err" <=> Failed # {}))

C7_State ==
    /\ C7_Outputs
    /\ C7_AllRun
    /\ Returned => (batch = "err" <=> (Failed # {} \/ site.failure = "seo"))
    /\ site.failure = "seo" => Failed = {}

\* what was written stays, and a finished job is not run again
C7_Step ==
    /\ \A f \in DOMAIN written : f \in DOMAIN written' /\ written'[f] = written[f]
    /\ \A j \in Jobs : jpc[j] \in {"done", "failed"} => jpc'[j] = jpc[j]

C7_PartialFailure == []C7_State /\ [][C7_Step]_vars

\* a batch that failed with one job's output written
C7_Witness ==
    /\ batch = "err"
    /\ \E j \in Jobs : jpc[j] = "done" /\ out_path(sources[j]) \in DOMAIN written
    /\ errors # <<>>

----------------------------------------------------------------------------
(* DevServer: src/src/watcher.rs, started by main.rs:146-166 *)

\* watcher.rs:94: broadcast::channel(100)
Capacity == 100
\* watcher.rs:158: Duration::from_millis(100)
debounce_duration == 100

HtmlFile == InputDir \o <<"/", "x", ".html">>
CssFile == InputDir \o <<"/", "s", ".css">>
WatchedPaths == {HtmlFile, CssFile}

\* Path::extension
Extension(p) == p[Len(p)]

FileChange(path, event_type, message) ==
    [path |-> path, event_type |-> event_type, message |-> message]

\* a modify event is a Modify change whatever its paths
Classify_Generic(kind, paths) ==
    CASE kind = "Create" -> "Create"
      [] kind = "Modify" -> "Modify"
      [] kind = "Remove" -> "Delete"
      [] OTHER -> "None"

\* watcher.rs:167-179; "Other" stands for the kinds the callback ignores
Classify(kind, paths) ==
    CASE kind = "Create" -> "Create"
      [] kind = "Modify" ->
            IF \E i \in 1..Len(paths) : Extension(paths[i]) = ".css"
            THEN "CssChange" ELSE "Modify"
      [] kind = "Remove" -> "Delete"
      [] OTHER -> "None"

\* every change is answered by the reload token
Translate_ReloadOnly(change) == [type |-> "reload", arg |-> <<>>]

\* watcher.rs:111-125: the message a client task makes of a change
Translate(change) ==
    CASE change.event_type = "CssChange" -> [type |-> "css", arg |-> change.path]
      [] change.event_type = "Error" -> [type |-> "error", arg |-> change.message]
      [] OTHER -> [type |-> "reload", arg |-> <<>>]

\* the receivers alive: one per client task that has not ended
Receivers == {c \in Clients : cpc[c] \in {"recv", "send"}}

\* broadcast::Sender::send: the value is taken only if a receiver exists
Send(channel, change) ==
    IF Receivers = {} THEN channel ELSE Append(channel, change)

\* watcher.rs:181-191: every path of the event is recorded and published
RECURSIVE SendAll(_, _, _)
SendAll(channel, paths, event_type) ==
    IF paths = <<>> THEN channel
    ELSE SendAll(Send(channel, FileChange(Head(paths), event_type, "")),
                 Tail(paths), event_type)

Min(a, b) == IF a < b THEN a ELSE b

\* main.rs:157: the build at the start of the watch branch succeeds
MainBuild ==
    /\ server = "building"
    /\ builds' = builds + 1
    /\ built_through' = accepted
    /\ server' = "starting"
    /\ UNCHANGED buildVars
    /\ UNCHANGED <<dirs, watched, callback, since_clear>>
    /\ UNCHANGED prev
    /\ UNCHANGED <<since_last, events, accepted, log, changed_files, cpc, sub,
                   next, cur, sock, open>>

\* main.rs:157-160: the build fails and main exits
MainBuildFail ==
    /\ server = "building"
    /\ builds' = builds + 1
    /\ built_through' = accepted
    /\ server' = "exited"
    /\ UNCHANGED buildVars
    /\ UNCHANGED <<dirs, watched, callback, since_clear>>
    /\ UNCHANGED prev
    /\ UNCHANGED <<since_last, events, accepted, log, changed_files, cpc, sub,
                   next, cur, sock, open>>

\* watcher.rs:89-144: the steps of DevServer::start in their order.  It is
\* entered at "starting"; the endpoints are serving at "serving".
StartSteps == <<"starting", "ensure_output", "ensure_components",
                "setup_watcher", "watch_input", "watch_components",
                "endpoints", "serving">>

StepAfter(step) ==
    StartSteps[(CHOOSE i \in 1..Len(StartSteps) - 1 : StartSteps[i] = step) + 1]

\* watcher.rs:76-86: the directory each step of initialize_directories
\* ensures
Ensures == [starting |-> "input", ensure_output |-> "output",
            ensure_components |-> "components"]

\* watcher.rs:100-101: the directory each call of watch attaches
Attaches == [watch_input |-> "input", watch_components |-> "components"]

\* the directory is made anew whether or not it is there
ensure_directory_Recreate(state) == "created"

\* watcher.rs:67-73: create_dir_all is called only for a path that does not
\* exist
ensure_directory(state) == IF state = "missing" THEN "created" ELSE state

\* watcher.rs:76-86: one call of ensure_directory returns Ok
EnsureDirectory ==
    /\ server \in DOMAIN Ensures
    /\ dirs' = [dirs EXCEPT ![Ensures[server]] = ensure_directory(@)]
    /\ server' = StepAfter(server)
    /\ UNCHANGED buildVars
    /\ UNCHANGED <<callback, since_clear>>
    /\ UNCHANGED <<builds, built_through, since_last, events, accepted, log,
                   changed_files, cpc, sub, next, cur, sock, open, prev,
                   watched>>

\* watcher.rs:97, 155-199: the watcher is made; last_event is the time of
\* its making
SetupWatcher ==
    /\ server = "setup_watcher"
    /\ server' = StepAfter(server)
    /\ since_last' = 0
    /\ UNCHANGED buildVars
    /\ UNCHANGED <<callback, since_clear>>
    /\ UNCHANGED <<builds, built_through, events, accepted, log, changed_files,
                   cpc, sub, next, cur, sock, open, prev, dirs, watched>>

\* watcher.rs:100-101: the watcher is attached to a directory
Watch ==
    /\ server \in DOMAIN Attaches
    /\ dirs[Attaches[server]] # "missing"
    /\ watched' = watched \cup {Attaches[server]}
    /\ server' = StepAfter(server)
    /\ UNCHANGED buildVars
    /\ UNCHANGED <<callback, since_clear>>
    /\ UNCHANGED <<builds, built_through, since_last, events, accepted, log,
                   changed_files, cpc, sub, next, cur, sock, open, prev, dirs>>

\* watcher.rs:104-144: the routes are built and both endpoints are spawned
StartServer ==
    /\ server = "endpoints"
    /\ server' = StepAfter(server)
    /\ UNCHANGED buildVars
    /\ UNCHANGED <<callback, since_clear>>
    /\ UNCHANGED <<builds, built_through, since_last, events, accepted, log,
                   changed_files, cpc, sub, next, cur, sock, open, prev, dirs,
                   watched>>

\* the steps of start that end in `?`; create_dir_all is only called, and so
\* only fails, for a directory that is missing
CanFail(step, ds) ==
    \/ step \in DOMAIN Ensures /\ ds[Ensures[step]] = "missing"
    \/ step \in {"setup_watcher"} \cup DOMAIN Attaches

\* start goes on after the error
OnStartError_GoOn(step) == StepAfter(step)

\* watcher.rs:91-101 returns the error, main.rs:163-166 logs it and calls
\* process::exit(1)
OnStartError(step) == "exited"

\* watcher.rs:91-101: a step of start fails
StartServerFail ==
    /\ CanFail(server, dirs)
    /\ server' = OnStartError(server)
    /\ UNCHANGED buildVars
    /\ UNCHANGED <<callback, since_clear>>
    /\ UNCHANGED <<builds, built_through, since_last, events, accepted, log,
                   changed_files, cpc, sub, next, cur, sock, open, prev, dirs,
                   watched>>

\* the last event is TickMs older; its age is counted up to the debounce
Aged(e) ==
    IF e.kind = "none" THEN e
    ELSE [e EXCEPT !.age = Min(e.age + TickMs, debounce_duration)]

\* the event the callback has just been handed, and what it published
Handed(kind, published) == [kind |-> kind, age |-> 0, published |-> published]

\* time passes
Tick ==
    /\ server = "serving"
    /\ since_last < debounce_duration
    /\ since_last' = Min(since_last + TickMs, debounce_duration)
    /\ prev' = Aged(prev)
    /\ UNCHANGED buildVars
    /\ UNCHANGED <<dirs, watched, callback, since_clear>>
    /\ UNCHANGED <<server, builds, built_through, events, accepted, log,
                   changed_files, cpc, sub, next, cur, sock, open>>

\* watcher.rs:163
Debounced(elapsed) == elapsed < debounce_duration

\* watcher.rs:162-165: the event comes too soon after the last accepted one
EventDropped(kind, paths) ==
    /\ server = "serving"
    /\ Debounced(since_last)
    /\ events' = events + 1
    /\ prev' = Handed(kind, 0)
    /\ UNCHANGED buildVars
    /\ UNCHANGED <<dirs, watched, callback, since_clear>>
    /\ UNCHANGED <<server, builds, built_through, since_last, accepted, log,
                   changed_files, cpc, sub, next, cur, sock, open>>

\* watcher.rs:178: a kind that is not create, modify or remove
EventIgnored(kind, paths) ==
    /\ server = "serving"
    /\ ~Debounced(since_last)
    /\ Classify(kind, paths) = "None"
    /\ events' = events + 1
    /\ prev' = Handed(kind, 0)
    /\ UNCHANGED buildVars
    /\ UNCHANGED <<dirs, watched, callback, since_clear>>
    /\ UNCHANGED <<server, builds, built_through, since_last, accepted, log,
                   changed_files, cpc, sub, next, cur, sock, open>>

\* an event of these paths is accepted
Accepts(paths_since, paths) ==
    [after |-> paths_since.after \cup Range(paths),
     upto |-> paths_since.upto \cup Range(paths)]

\* the send waits until every receiver has taken what was sent before
SendReady_WaitsForClients(channel, positions) ==
    \A c \in Receivers : positions[c] = Len(channel)

\* watcher.rs:188: broadcast::Sender::send returns at once, whatever the
\* receivers have read
SendReady(channel, positions) == TRUE

\* watcher.rs:167-192: the event is classified, recorded and published
EventAccepted(kind, paths) ==
    /\ server = "serving"
    /\ ~Debounced(since_last)
    /\ SendReady(log, next)
    /\ Classify(kind, paths) # "None"
    /\ changed_files' = changed_files \cup Range(paths)
    /\ log' = SendAll(log, paths, Classify(kind, paths))
    /\ since_last' = 0
    /\ events' = events + 1
    /\ accepted' = accepted + 1
    /\ prev' = Handed(kind, Len(log') - Len(log))
    /\ UNCHANGED buildVars
    /\ since_clear' = Accepts(since_clear, paths)
    /\ UNCHANGED <<dirs, watched, callback>>
    /\ UNCHANGED <<server, builds, built_through, cpc, sub, next, cur, sock, open>>

\* The same run of the callback step by step, as a caller of
\* get_changed_files and clear_changed_files on another thread can find it.

\* the path is published first and recorded afterwards
LoopBody_SendFirst == <<"send", "insert">>

\* watcher.rs:181-191: the body of the loop over the paths of the event
LoopBody == <<"insert", "send">>

Running == callback # <<>>

\* the loop goes on to the next statement of its body, or to the next path
Advance(run) ==
    IF run.at = Len(LoopBody)
    THEN [run EXCEPT !.paths = Tail(@), !.at = 1, !.recorded = FALSE]
    ELSE [run EXCEPT !.at = @ + 1]

\* watcher.rs:161-179: the event passes the debounce and is given its kind
CallbackBegin(kind, paths) ==
    /\ server = "serving"
    /\ ~Running
    /\ ~Debounced(since_last)
    /\ Classify(kind, paths) # "None"
    /\ callback' = <<[kind |-> kind, event_type |-> Classify(kind, paths),
                      event |-> paths, paths |-> paths, published |-> 0,
                      at |-> 1, recorded |-> FALSE]>>
    /\ events' = events + 1
    /\ since_clear' = Accepts(since_clear, paths)
    /\ UNCHANGED buildVars
    /\ UNCHANGED <<server, builds, built_through, since_last, accepted, log,
                   changed_files, cpc, sub, next, cur, sock, open, prev, dirs,
                   watched>>

\* watcher.rs:182: changed_files.write().insert(path.clone())
CallbackRecord ==
    /\ Running
    /\ callback[1].paths # <<>>
    /\ LoopBody[callback[1].at] = "insert"
    /\ changed_files' = changed_files \cup {Head(callback[1].paths)}
    /\ callback' = <<Advance([callback[1] EXCEPT !.recorded = TRUE])>>
    /\ UNCHANGED buildVars
    /\ UNCHANGED <<server, builds, built_through, since_last, events, accepted,
                   log, cpc, sub, next, cur, sock, open, prev, dirs, watched,
                   since_clear>>

\* watcher.rs:183-190: tx.send(change), whose error is only logged
CallbackPublish ==
    /\ Running
    /\ callback[1].paths # <<>>
    /\ LoopBody[callback[1].at] = "send"
    /\ log' = Send(log, FileChange(Head(callback[1].paths),
                                   callback[1].event_type, ""))
    /\ callback' = <<Advance([callback[1] EXCEPT
                                 !.published = @ + Len(log') - Len(log)])>>
    /\ UNCHANGED buildVars
    /\ UNCHANGED <<server, builds, built_through, since_last, events, accepted,
                   changed_files, cpc, sub, next, cur, sock, open, prev, dirs,
                   watched, since_clear>>

\* watcher.rs:192: last_event = now, and the callback returns
CallbackEnd ==
    /\ Running
    /\ callback[1].paths = <<>>
    /\ since_last' = 0
    /\ accepted' = accepted + 1
    /\ prev' = Handed(callback[1].kind, callback[1].published)
    /\ callback' = <<>>
    /\ UNCHANGED buildVars
    /\ UNCHANGED <<server, builds, built_through, events, log, changed_files,
                   cpc, sub, next, cur, sock, open, dirs, watched, since_clear>>

\* watcher.rs:201-203: a copy of the set
get_changed_files == changed_files

\* watcher.rs:205-207: clear_changed_files, called on any thread at any time
ClearChangedFiles ==
    /\ server \notin {"off", "exited"}
    /\ changed_files' = {}
    /\ since_clear' = [after |-> {},
                       upto |-> IF Running THEN Range(callback[1].event) ELSE {}]
    /\ UNCHANGED buildVars
    /\ UNCHANGED <<server, builds, built_through, since_last, events, accepted,
                   log, cpc, sub, next, cur, sock, open, prev, dirs, watched,
                   callback>>

\* watcher.rs:106: Sender::subscribe starts the receiver at the tail
SubscribePosition(channel) == Len(channel)

\* watcher.rs:104-109: a client connects and gets its own receiver
Connect(c) ==
    /\ server = "serving"
    /\ cpc[c] = "none"
    /\ cpc' = [cpc EXCEPT ![c] = "recv"]
    /\ sub' = [sub EXCEPT ![c] = Len(log)]
    /\ next' = [next EXCEPT ![c] = SubscribePosition(log)]
    /\ open' = [open EXCEPT ![c] = TRUE]
    /\ UNCHANGED buildVars
    /\ UNCHANGED <<dirs, watched, callback, since_clear>>
    /\ UNCHANGED prev
    /\ UNCHANGED <<server, builds, built_through, since_last, events, accepted,
                   log, changed_files, cur, sock>>

\* broadcast::Receiver::recv: the value at the receiver's position is gone
Lagged(channel, position) == Len(channel) - position > Capacity

\* watcher.rs:110-125: rx.recv() yields the next change
ClientRecv(c) ==
    /\ cpc[c] = "recv"
    /\ next[c] < Len(log)
    /\ ~Lagged(log, next[c])
    /\ cur' = [cur EXCEPT ![c] =
                  <<[msg |-> Translate(log[next[c] + 1]), pos |-> next[c] + 1]>>]
    /\ next' = [next EXCEPT ![c] = @ + 1]
    /\ cpc' = [cpc EXCEPT ![c] = "send"]
    /\ UNCHANGED buildVars
    /\ UNCHANGED <<dirs, watched, callback, since_clear>>
    /\ UNCHANGED prev
    /\ UNCHANGED <<server, builds, built_through, since_last, events, accepted,
                   log, changed_files, sub, sock, open>>

\* watcher.rs:110: rx.recv() yields Err(Lagged) and the while-let loop ends
ClientLagged(c) ==
    /\ cpc[c] = "recv"
    /\ Lagged(log, next[c])
    /\ next' = [next EXCEPT ![c] = Len(log) - Capacity]
    /\ cpc' = [cpc EXCEPT ![c] = "done"]
    /\ UNCHANGED buildVars
    /\ UNCHANGED <<dirs, watched, callback, since_clear>>
    /\ UNCHANGED prev
    /\ UNCHANGED <<server, builds, built_through, since_last, events, accepted,
                   log, changed_files, sub, cur, sock, open>>

\* watcher.rs:127: the message goes out on the socket
ClientSend(c) ==
    /\ cpc[c] = "send"
    /\ open[c]
    /\ sock' = [sock EXCEPT ![c] = @ \o cur[c]]
    /\ cur' = [cur EXCEPT ![c] = <<>>]
    /\ cpc' = [cpc EXCEPT ![c] = "recv"]
    /\ UNCHANGED buildVars
    /\ UNCHANGED <<dirs, watched, callback, since_clear>>
    /\ UNCHANGED prev
    /\ UNCHANGED <<server, builds, built_through, since_last, events, accepted,
                   log, changed_files, sub, next, open>>

\* watcher.rs:127-130: the send fails and the task ends
ClientSendFail(c) ==
    /\ cpc[c] = "send"
    /\ ~open[c]
    /\ cur' = [cur EXCEPT ![c] = <<>>]
    /\ cpc' = [cpc EXCEPT ![c] = "done"]
    /\ UNCHANGED buildVars
    /\ UNCHANGED <<dirs, watched, callback, since_clear>>
    /\ UNCHANGED prev
    /\ UNCHANGED <<server, builds, built_through, since_last, events, accepted,
                   log, changed_files, sub, next, sock, open>>

\* the peer closes its connection
ClientClose(c) ==
    /\ cpc[c] \in {"recv", "send"}
    /\ open[c]
    /\ open' = [open EXCEPT ![c] = FALSE]
    /\ UNCHANGED buildVars
    /\ UNCHANGED <<dirs, watched, callback, since_clear>>
    /\ UNCHANGED prev
    /\ UNCHANGED <<server, builds, built_through, since_last, events, accepted,
                   log, changed_files, cpc, sub, next, cur, sock>>

\* main has parsed its arguments with --watch and made the generator; ds
\* tells which directories of the server exist
WatchFrom(ds) ==
    /\ files = <<>>
    /\ unreadable = {}
    /\ pages = <<>>
    /\ sources = <<>>
    /\ file_results = <<>>
    /\ content_cache = <<>>
    /\ path_cache = <<>>
    /\ holder = None
    /\ visited = {}
    /\ stack = <<>>
    /\ jpc = <<>>
    /\ processed = <<>>
    /\ written = <<>>
    /\ processed_files = <<>>
    /\ batch = "running"
    /\ errors = <<>>
    /\ edits = 0
    /\ began = <<>>
    /\ found = <<>>
    /\ probes = <<>>
    /\ site = [seo |-> FALSE, given |-> None, failure |-> "none"]
    /\ server = "building"
    /\ builds = 0
    /\ built_through = 0
    /\ since_last = 0
    /\ events = 0
    /\ accepted = 0
    /\ log = <<>>
    /\ changed_files = {}
    /\ cpc = [c \in Clients |-> "none"]
    /\ sub = [c \in Clients |-> 0]
    /\ next = [c \in Clients |-> 0]
    /\ cur = [c \in Clients |-> <<>>]
    /\ sock = [c \in Clients |-> <<>>]
    /\ open = [c \in Clients |-> FALSE]
    /\ prev = NoEvent
    /\ dirs = ds
    /\ watched = {}
    /\ callback = <<>>
    /\ since_clear = [after |-> {}, upto |-> {}]

\* every directory of the server exists
WatchInit == WatchFrom([d \in Directories |-> "kept"])

EventKinds == {"Create", "Modify", "Remove", "Other"}
EventPaths == UNION {[1..k -> WatchedPaths] : k \in 1..MaxPaths}

ClientStep(c) ==
    \/ ClientRecv(c)
    \/ ClientLagged(c)
    \/ ClientSend(c)
    \/ ClientSendFail(c)

ServerNext ==
    \/ MainBuild
    \/ MainBuildFail
    \/ EnsureDirectory
    \/ SetupWatcher
    \/ Watch
    \/ StartServer
    \/ StartServerFail
    \/ Tick
    \/ \E c \in Clients : Connect(c)
    \/ \E c \in Clients : ClientRecv(c)
    \/ \E c \in Clients : ClientSend(c)
    \/ \E c \in Clients : ClientSendFail(c)
    \/ \E c \in Clients : ClientClose(c)

\* at most MaxEvents low-level events of any kind
WatchNext ==
    \/ ServerNext
    \/ \E kind \in EventKinds, paths \in EventPaths :
          events < MaxEvents /\ EventDropped(kind, paths)
    \/ \E kind \in EventKinds, paths \in EventPaths :
          events < MaxEvents /\ EventIgnored(kind, paths)
    \/ \E kind \in EventKinds, paths \in EventPaths :
          events < MaxEvents /\ EventAccepted(kind, paths)

WatchSpec == WatchInit /\ [][WatchNext]_vars

\* a client task that can take a step takes it (the tokio runtime runs every
\* task that is ready)
FairWatchSpec ==
    WatchInit /\ [][WatchNext]_vars /\ \A c \in Clients : WF_vars(ClientStep(c))

\* A burst: modify events of one file, each accepted, one more than the
\* channel holds.  Clients connect and receive during the first MaxRecv
\* events and are stalled after them; no connection is closed.
BurstNext ==
    \/ MainBuild
    \/ MainBuildFail
    \/ EnsureDirectory
    \/ SetupWatcher
    \/ Watch
    \/ StartServer
    \/ StartServerFail
    \/ Tick
    \/ events < Capacity + BurstExtra /\ EventAccepted("Modify", <<HtmlFile>>)
    \/ \E c \in Clients : Len(log) < MaxRecv /\ Connect(c)
    \/ \E c \in Clients : next[c] < MaxRecv /\ ClientRecv(c)
    \/ \E c \in Clients : ClientLagged(c)
    \/ \E c \in Clients : ClientSend(c)

BurstSpec == WatchInit /\ [][BurstNext]_vars

\* main.rs:150: the components directory lies in the input directory
StartDirs ==
    {ds \in [Directories -> {"missing", "kept"}] :
        ds["components"] = "kept" => ds["input"] = "kept"}

\* The start of the development server over every set of directories that
\* exist when it is started, and clients that connect to it.
StartInit == \E ds \in StartDirs : WatchFrom(ds)

StartNext ==
    \/ MainBuild
    \/ MainBuildFail
    \/ EnsureDirectory
    \/ SetupWatcher
    \/ Watch
    \/ StartServer
    \/ StartServerFail
    \/ Tick
    \/ \E c \in Clients : Connect(c)
    \/ \E c \in Clients : ClientClose(c)

StartSpec == StartInit /\ [][StartNext]_vars

\* The server with the callback taken step by step and the two methods on
\* changed_files called while it runs; clients connect, none receives.
\* notify calls the callback for one event at a time.
ChangedNext ==
    \/ MainBuild
    \/ MainBuildFail
    \/ EnsureDirectory
    \/ SetupWatcher
    \/ Watch
    \/ StartServer
    \/ StartServerFail
    \/ ~Running /\ Tick
    \/ \E kind \in EventKinds, paths \in EventPaths :
          events < MaxEvents /\ ~Running /\ EventDropped(kind, paths)
    \/ \E kind \in EventKinds, paths \in EventPaths :
          events < MaxEvents /\ ~Running /\ EventIgnored(kind, paths)
    \/ \E kind \in EventKinds, paths \in EventPaths :
          events < MaxEvents /\ CallbackBegin(kind, paths)
    \/ CallbackRecord
    \/ CallbackPublish
    \/ CallbackEnd
    \/ ClearChangedFiles
    \/ \E c \in Clients : Connect(c)

ChangedSpec == WatchInit /\ [][ChangedNext]_vars

\* The client task by itself, over every value of FileChange its receiver
\* can yield (watcher.rs:29-38): each kind of change, and for Error its text.
ChangeKinds == {"Create", "Modify", "Delete", "CssChange"}

FileChanges ==
    {FileChange(p, k, "") : p \in WatchedPaths, k \in ChangeKinds}
        \cup {FileChange(HtmlFile, "Error", "Build Error")}

\* every client is connected from the start and the channel holds up to
\* MaxRecv changes
ClientInit ==
    /\ files = <<>>
    /\ unreadable = {}
    /\ pages = <<>>
    /\ sources = <<>>
    /\ file_results = <<>>
    /\ content_cache = <<>>
    /\ path_cache = <<>>
    /\ holder = None
    /\ visited = {}
    /\ stack = <<>>
    /\ jpc = <<>>
    /\ processed = <<>>
    /\ written = <<>>
    /\ processed_files = <<>>
    /\ batch = "ok"
    /\ errors = <<>>
    /\ edits = 0
    /\ began = <<>>
    /\ found = <<>>
    /\ probes = <<>>
    /\ site = [seo |-> FALSE, given |-> None, failure |-> "none"]
    /\ server = "serving"
    /\ builds = 1
    /\ built_through = 0
    /\ since_last = 0
    /\ events = 0
    /\ accepted = 0
    /\ log \in SeqsUpTo(FileChanges, MaxRecv)
    /\ changed_files = {}
    /\ cpc = [c \in Clients |-> "recv"]
    /\ sub = [c \in Clients |-> 0]
    /\ next = [c \in Clients |-> 0]
    /\ cur = [c \in Clients |-> <<>>]
    /\ sock = [c \in Clients |-> <<>>]
    /\ open = [c \in Clients |-> TRUE]
    /\ prev = NoEvent
    /\ dirs = [d \in Directories |-> "kept"]
    /\ watched = {"input", "components"}
    /\ callback = <<>>
    /\ since_clear = [after |-> {}, upto |-> {}]

ClientNext ==
    \/ \E c \in Clients : ClientRecv(c)
    \/ \E c \in Clients : ClientSend(c)
    \/ \E c \in Clients : ClientSendFail(c)
    \/ \E c \in Clients : ClientClose(c)

ClientSpec == ClientInit /\ [][ClientNext]_vars

----------------------------------------------------------------------------
(* C8: in watch mode every accepted change event is followed by a build    *)
(* that began after it.                                                    *)
C8_RebuildFollows ==
    \A k \in 1..MaxEvents : (accepted = k) ~> (built_through >= k)

----------------------------------------------------------------------------
(* C9: a client is sent every change published while it is subscribed, in  *)
(* publication order and from its own receiver, and nothing published      *)
(* before it subscribed.                                                   *)

\* what the task of c has taken from the channel: sent or being sent
Taken(c) == sock[c] \o cur[c]

\* the i-th message of c is made from the i-th change after it subscribed
InOrderFromSubscription(c) ==
    \A i \in 1..Len(Taken(c)) :
        /\ Taken(c)[i].pos = sub[c] + i
        /\ Taken(c)[i].msg = Translate(log[sub[c] + i])

\* the receiver of c has skipped nothing
NothingSkipped(c) == next[c] = sub[c] + Len(Taken(c))

\* the claim as stated: no change is ever lost to a subscribed client, whose
\* task ends only with its connection
C9_EveryChangeSent ==
    \A c \in Clients :
        cpc[c] # "none" =>
            /\ InOrderFromSubscription(c)
            /\ NothingSkipped(c)
            /\ cpc[c] = "done" => ~open[c]

\* as amended: the same as long as the client is not more than Capacity
\* changes behind; the task of a client that is ends with the changes unsent
C9_SentUnlessLagged ==
    \A c \in Clients :
        cpc[c] # "none" =>
            /\ InOrderFromSubscription(c)
            /\ cpc[c] # "done" => NothingSkipped(c)
            /\ (cpc[c] = "done" /\ open[c]) =>
                  /\ next[c] = Len(log) - Capacity \/ Len(log) - next[c] > Capacity
                  /\ next[c] - (sub[c] + Len(Taken(c))) > 0

\* one client subscribed late and was sent a change, another fell behind
\* and its task ended
C9_Witness ==
    \E c, d \in Clients :
        /\ sub[c] > 0 /\ Len(sock[c]) > 0
        /\ cpc[d] = "done" /\ open[d]

----------------------------------------------------------------------------
(* C10: publishing never waits for a client, and what one client does, or  *)
(* that its connection is closed or its task ends, changes nothing for the *)
(* watcher and the other clients.                                          *)

ClientState(c) == <<cpc[c], sub[c], next[c], cur[c], sock[c], open[c]>>

\* the callback can publish now, whatever the clients are doing
C10_PublishEnabled ==
    (server = "serving" /\ ~Debounced(since_last) /\ events < MaxEvents)
        => ENABLED EventAccepted("Modify", <<HtmlFile>>)

\* a client with a change waiting in the channel can take it
C10_DeliveryEnabled ==
    \A c \in Clients :
        (cpc[c] = "recv" /\ next[c] < Len(log)) => ENABLED ClientStep(c)

\* a step that changes one client leaves the others, the channel and the
\* watcher as they are
C10_Step ==
    \A c \in Clients :
        ClientState(c)' # ClientState(c) =>
            /\ \A d \in Clients \ {c} : ClientState(d)' = ClientState(d)
            /\ (cpc'[c] = "done" \/ open'[c] # open[c])
                  => UNCHANGED <<server, since_last, events, accepted, log,
                                 changed_files>>

C10_ClientsIndependent ==
    [](C10_PublishEnabled /\ C10_DeliveryEnabled) /\ [][C10_Step]_vars

\* a change was published and sent to one client while the other client was
\* stalled in its send and then gone
C10_Witness ==
    \E c, d \in Clients :
        /\ c # d
        /\ cpc[c] = "done" /\ ~open[c] /\ next[c] > sub[c]
        /\ Len(sock[d]) > 0 /\ sock[d][Len(sock[d])].pos > next[c]

----------------------------------------------------------------------------
(* C11: two modify events handed to the callback less than the debounce    *)
(* interval apart publish at most one FileChange between them.             *)

\* this step hands the callback a modify event less than the debounce
\* interval after another modify event
SecondModifyInWindow ==
    /\ events' = events + 1
    /\ prev.kind = "Modify"
    /\ prev'.kind = "Modify"
    /\ prev.age < debounce_duration

C11_AtMostOnePublished ==
    [][SecondModifyInWindow => prev.published + prev'.published <= 1]_vars

\* a modify event of two paths was accepted with a client connected
C11_Witness == prev.kind = "Modify" /\ prev.published = 2

----------------------------------------------------------------------------
(* C12: find_component_file goes to the file system at most once for a     *)
(* pair (current directory, name).  What it returns is recorded in the     *)
(* path cache before it returns, a recorded value is never changed, and a  *)
(* resolution that finds a recorded value returns it without a probe.      *)

ProbedAtMostOnce == \A pair \in DOMAIN probes : probes[pair] <= 1

\* the value the last call returned is the one recorded under its key
ReturnedIsRecorded ==
    found # <<>> =>
        LET cache_key == CacheKey(found[1].dir, found[1].name)
        IN  /\ cache_key \in DOMAIN path_cache
            /\ path_cache[cache_key] = found[1].result

WriteOnce ==
    \A k \in DOMAIN path_cache :
        k \in DOMAIN path_cache' /\ path_cache'[k] = path_cache[k]

\* the file system is touched only for a key that has no recorded value
ProbeOnlyOnMiss ==
    \A pair \in DOMAIN probes' :
        (pair \notin DOMAIN probes \/ probes'[pair] # probes[pair])
            => CacheKey(pair[1], pair[2]) \notin DOMAIN path_cache

C12_ProbeOncePerKey ==
    /\ [](ProbedAtMostOnce /\ ReturnedIsRecorded)
    /\ [][WriteOnce /\ ProbeOnlyOnMiss]_vars

\* a resolution was answered from the path cache, the pair probed once
C12_Witness ==
    /\ found # <<>>
    /\ found[1].hit
    /\ <<found[1].dir, found[1].name>> \in DOMAIN probes
    /\ probes[<<found[1].dir, found[1].name>>] = 1

----------------------------------------------------------------------------
(* C13: every tag of a resolvable, readable component is replaced by the   *)
(* rendering of the file the resolver returns for the directory of the     *)
(* file that holds the tag, rendered with the directory of the resolved    *)
(* file as current directory, from the file or from the content cache.     *)

\* the text with each tag replaced by the expansion of the file it names
RECURSIVE Expansion(_, _, _)
Expansion(fs, dir, content) ==
    IF ~HasTag(content) THEN content
    ELSE LET tag == FirstTag(content)
             path == Target(fs, dir, tag.n)[1]
         IN  Expansion(fs, dir,
                       Replace(content, tag,
                               Expansion(fs, Some(Parent(path)), fs[path])))

\* the page reaches only readable components and no inclusion cycle
C13_Case(j) ==
    /\ Rendered(j)
    /\ edits = 0
    /\ Acyclic(files, unreadable)
    /\ AllResolvable(files, unreadable, pages[j])

C13_TagsExpandInPlace ==
    \A j \in Jobs : C13_Case(j) => processed[j] = Expansion(files, None, pages[j])

\* a page that includes a component of the subdirectory, which includes its
\* sibling, was rendered
C13_Witness ==
    \E j \in Jobs :
        /\ C13_Case(j)
        /\ Tag(<<"s", "/", "b">>, "d") \in Range(pages[j])

----------------------------------------------------------------------------
(* C14: find_component_file returns the exact path <base>/<name>.html when *)
(* that file exists, base being the components root for a root-anchored    *)
(* name, else the current directory when there is one, else the root;      *)
(* otherwise a file under the root whose stem equals the name ignoring     *)
(* case; otherwise nothing.                                                *)

C14_Base(dir, name) ==
    IF StartsWithSlash(name) \/ dir = None THEN ComponentsDir ELSE dir[1]

C14_Exact(dir, name) ==
    C14_Base(dir, name) \o <<"/">>
        \o (IF StartsWithSlash(name) THEN Tail(name) ELSE name) \o <<Ext>>

\* the results the claim allows over the files fs
C14_Allowed(fs, dir, name) ==
    IF C14_Exact(dir, name) \in DOMAIN fs THEN {Some(C14_Exact(dir, name))}
    ELSE IF \E p \in DOMAIN fs : EqIgnoreAsciiCase(FileStem(p), name)
         THEN {Some(p) : p \in {q \in DOMAIN fs : EqIgnoreAsciiCase(FileStem(q), name)}}
         ELSE {None}

C14_ResolvesAsSpecified ==
    (found # <<>> /\ edits = 0) =>
        found[1].result \in C14_Allowed(files, found[1].dir, found[1].name)

\* a name was resolved from inside the subdirectory
C14_Witness ==
    /\ found # <<>>
    /\ found[1].dir = Some(SubDir)
    /\ found[1].result # None

----------------------------------------------------------------------------
(* C15: in the output of a page every tag of the page that names no file   *)
(* is replaced by a "Component not found" comment with its name and every  *)
(* tag whose file cannot be read by a "Failed to read component" comment   *)
(* with its name.                                                          *)

\* how many tokens of the text are of this kind and carry this name
Named(content, kind, name) ==
    Cardinality({i \in 1..Len(content) : content[i].t = kind /\ content[i].n = name})

\* the name resolves to no file from a page
Missing(name) == FindResults(files, <<>>, None, name) = {None}

\* the name resolves from a page to a file that cannot be read
Unread(name) ==
    \A r \in FindResults(files, <<>>, None, name) :
        r # None /\ ~Readable(files, unreadable, r[1])

C15_BadReferencesMarked ==
    \A j \in Jobs :
        (Rendered(j) /\ edits = 0) =>
            \A name \in {tok.n : tok \in Range(TagsOf(pages[j]))} :
                /\ Missing(name) =>
                      Named(processed[j], "notfound", name) = Named(pages[j], "tag", name)
                /\ Unread(name) =>
                      Named(processed[j], "readerr", name) = Named(pages[j], "tag", name)

\* a page with a tag of a missing or unreadable component was rendered with
\* the comment for it
C15_Witness ==
    \E j \in Jobs :
        /\ Rendered(j)
        /\ Count(processed[j], "notfound") + Count(processed[j], "readerr") > 0
        /\ Count(processed[j], "circ") = 0

----------------------------------------------------------------------------
(* C16: a text without a component tag is rendered to itself, and no       *)
(* output of a render and no value of the content cache holds a component  *)
(* tag, so that rendering an output again returns it unchanged.            *)

TaglessUnchanged ==
    \A j \in Jobs : (Rendered(j) /\ ~HasTag(pages[j])) => processed[j] = pages[j]

OutputsTagless ==
    /\ \A j \in Jobs : Rendered(j) => ~HasTag(processed[j])
    /\ \A name \in DOMAIN content_cache : ~HasTag(content_cache[name])

\* a render whose input is the output of an earlier render returns it
RenderOfOutput ==
    \A j, k \in Jobs :
        (Rendered(j) /\ Rendered(k) /\ pages[k] = processed[j])
            => processed[k] = processed[j]

C16_RenderIdempotent == TaglessUnchanged /\ OutputsTagless /\ RenderOfOutput

\* a page without a tag and a page with a tag were rendered, and the
\* content cache holds the rendering of a component that includes another
C16_Witness ==
    /\ \E j, k \in Jobs :
          /\ Rendered(j) /\ ~HasTag(pages[j])
          /\ Rendered(k) /\ HasTag(pages[k])
    /\ \E name \in DOMAIN content_cache :
          \E i \in 1..Len(content_cache[name]) :
              /\ content_cache[name][i].t = "text"
              /\ FileStem(content_cache[name][i].n) # name

----------------------------------------------------------------------------
(* C17: a build that fails in watch mode is published as one FileChange of *)
(* kind Error and leaves the server running.  The build of the watch       *)
(* branch is the only build the program runs in watch mode.                *)

\* this step is a build of the watch branch that returns an error
WatchBuildFails == builds' = builds + 1 /\ server' # "starting"

\* one change of kind Error is sent on the channel
OneErrorPublished ==
    \E message \in {"Build Error"} :
        log' = Send(log, FileChange(<<"unknown">>, "Error", message))

----------------------------------------------------------------------------
(* C18: the changes an accepted modify event publishes for its paths of    *)
(* extension css are of kind CssChange; no change of kind Modify is ever   *)
(* published for such a path.                                              *)

\* this step is the callback accepting a modify event
ModifyAccepted ==
    events' = events + 1 /\ accepted' = accepted + 1 /\ prev'.kind = "Modify"

C18_Step ==
    ModifyAccepted =>
        \A i \in (Len(log) + 1)..Len(log') :
            Extension(log'[i].path) = ".css" => log'[i].event_type = "CssChange"

C18_State ==
    \A i \in 1..Len(log) :
        Extension(log[i].path) = ".css" => log[i].event_type # "Modify"

C18_CssChangePublished == []C18_State /\ [][C18_Step]_vars

\* a modify event of a stylesheet was accepted and published
C18_Witness ==
    /\ prev.kind = "Modify"
    /\ prev.published > 0
    /\ log[Len(log)].path = CssFile
    /\ log[Len(log)].event_type = "CssChange"

----------------------------------------------------------------------------
(* C19: for every change a client task receives it sends exactly one       *)
(* message: a css message with the path for CssChange, an error message    *)
(* with the text for Error, the bare reload token for Create, Modify and   *)
(* Delete.                                                                 *)

\* the message the claim gives for a change
C19_Message(change) ==
    IF change.event_type = "CssChange"
    THEN [type |-> "css", arg |-> change.path]
    ELSE IF change.event_type = "Error"
         THEN [type |-> "error", arg |-> change.message]
         ELSE [type |-> "reload", arg |-> <<>>]

\* what the task was given to send is one message for each change received:
\* all but the last are on the socket, the last is on it or being sent, or
\* was being sent when the connection had gone
C19_State ==
    \A c \in Clients :
        /\ \A i \in 1..Len(Taken(c)) :
              Taken(c)[i].msg = C19_Message(log[Taken(c)[i].pos])
        /\ \A i, k \in 1..Len(Taken(c)) : i < k => Taken(c)[i].pos < Taken(c)[k].pos
        /\ cpc[c] \in {"recv", "send"} => Len(Taken(c)) = next[c] - sub[c]
        /\ cpc[c] = "done" => Len(Taken(c)) = next[c] - sub[c] - 1

\* a receive hands the task one message and a send puts one on the socket
C19_Step ==
    \A c \in Clients :
        /\ next'[c] # next[c] => (next'[c] = next[c] + 1 /\ Len(cur'[c]) = 1)
        /\ sock'[c] # sock[c] => (Len(sock'[c]) = Len(sock[c]) + 1 /\ cur'[c] = <<>>)

C19_OneMessagePerChange == []C19_State /\ [][C19_Step]_vars

\* a client was sent an error message and a css message
C19_Witness ==
    \E c \in Clients :
        /\ Len(sock[c]) = 2
        /\ \E i \in 1..2 : sock[c][i].msg.type = "error"
        /\ \E i \in 1..2 : sock[c][i].msg.type = "css"

----------------------------------------------------------------------------
(* C20: the sitemap and RSS generators are called only when every job of   *)
(* the batch has finished, none has failed and site-wide generation is     *)
(* enabled, and the list they are given holds the output path of every job *)
(* of the batch once and nothing else.                                     *)

C20_State ==
    site.given # None =>
        /\ \A j \in Jobs : jpc[j] = "done"
        /\ errors = <<>>
        /\ site.seo
        /\ Range(site.given[1]) = DOMAIN written
        /\ \A j \in Jobs : Occurrences(site.given[1], out_path(sources[j])) = 1
        /\ Len(site.given[1]) = Cardinality(Jobs)

\* the generators are called in a step that finds every job finished, and
\* what they were given is not changed afterwards
C20_Step ==
    site'.given # site.given =>
        /\ site.given = None
        /\ \A j \in Jobs : Finished(j)
        /\ UNCHANGED <<jpc, written, processed_files>>

C20_GeneratorsAfterJobs == []C20_State /\ [][C20_Step]_vars

\* the generators were given the outputs of a batch of several jobs
C20_Witness ==
    /\ site.given # None
    /\ Len(site.given[1]) = Cardinality(Jobs)
    /\ Cardinality(Jobs) > 1
    /\ batch = "ok"

----------------------------------------------------------------------------
(* C21: start makes the input, output and components directories that are  *)
(* missing and leaves alone those that exist, all before the watcher is    *)
(* attached to any directory.                                              *)

\* a step of initialize_directories has returned Ok for directory d
Ensured(d) ==
    /\ server \in DOMAIN Ensures
    /\ Ensures[server] = d
    /\ server' = StepAfter(server)

\* a missing directory is made, an existing one is neither changed nor a
\* reason to fail
C21_Step ==
    [][\A d \in Directories :
          /\ (Ensured(d) /\ dirs[d] = "missing") => dirs'[d] = "created"
          /\ dirs[d] = "kept" => dirs'[d] = "kept"
          /\ (server \in DOMAIN Ensures /\ Ensures[server] = d
                /\ dirs[d] # "missing") => Ensured(d)]_vars

\* the watcher is attached only when all three directories exist
C21_State ==
    /\ watched # {} => \A d \in Directories : dirs[d] # "missing"
    /\ server \in {"watch_input", "watch_components", "endpoints", "serving"}
          => \A d \in Directories : dirs[d] # "missing"

C21_DirectoriesBeforeWatcher == C21_Step /\ [](C21_State)

C21_Witness ==
    /\ watched = {"input"}
    /\ dirs = [input |-> "kept", output |-> "created", components |-> "created"]

----------------------------------------------------------------------------
(* C22: when a directory cannot be made, or the watcher cannot be made or  *)
(* attached, start returns the error with no endpoint started, and main    *)
(* exits with a failure status.                                            *)

StartComplete ==
    /\ \A d \in Directories : dirs[d] # "missing"
    /\ watched = {"input", "components"}

\* a step of start that ends otherwise than by going on to the next step
StartErrs ==
    /\ server \in DOMAIN Ensures \cup {"setup_watcher"} \cup DOMAIN Attaches
    /\ server' # server
    /\ server' # StepAfter(server)

C22_Step == [][StartErrs => server' = "exited"]_vars

\* the endpoints are only ever started by a start whose steps all succeeded
C22_State == server \in {"endpoints", "serving"} => StartComplete

C22_StartErrorExits == C22_Step /\ [](C22_State)

C22_Witness ==
    /\ server = "exited"
    /\ watched = {"input"}
    /\ builds = 1

----------------------------------------------------------------------------
(* C23: when exactly one of the N content files of a batch cannot be read, *)
(* the batch leaves N-1 outputs and one recorded error, and the text of    *)
(* that error holds the path of the file that could not be read.           *)

\* the text holds the path
Mentions(text, path) ==
    \E i \in 1..Len(text) :
        i + Len(path) - 1 <= Len(text) /\ SubSeq(text, i, i + Len(path) - 1) = path

\* the jobs that failed before they had any content to write
FailedUnread == {j \in Failed : processed[j] = <<>>}

C23_Case == Returned /\ Cardinality(Failed) = 1 /\ FailedUnread = Failed

C23_Outputs == C23_Case => Cardinality(DOMAIN written) = Cardinality(Jobs) - 1

C23_ErrorNamesFile ==
    C23_Case =>
        /\ Len(errors) = 1
        /\ \A j \in FailedUnread : Mentions(errors[1], sources[j])

C23_OneUnreadable == C23_Outputs /\ C23_ErrorNamesFile

\* a batch returned with one file that could not be read and one error
C23_Witness == C23_Case /\ Len(errors) = 1 /\ written # <<>>

----------------------------------------------------------------------------
(* C25: no two jobs of a batch write the same output file: the output      *)
(* paths of two different content files differ, also those of a markdown   *)
(* post and a markup page of the same stem in one directory.               *)

\* the jobs that wrote their output
Wrote == {j \in Jobs : jpc[j] = "done"}

C25_DistinctOutputs ==
    \A j, k \in Wrote : j # k => file_results[j].v # file_results[k].v

\* a post and a page of one directory have both written their output
C25_Witness ==
    \E j, k \in Wrote :
        /\ IsMarkdown(sources[j])
        /\ ~IsMarkdown(sources[k])
        /\ Parent(sources[j]) = Parent(sources[k])

----------------------------------------------------------------------------
(* C26: the content of every job, of a markdown post as of a markup page,  *)
(* goes through the renderer before it is written, so that no output holds *)
(* a component tag.                                                        *)

C26_OutputsExpanded ==
    /\ \A j \in Jobs : Rendered(j) => ~HasTag(processed[j])
    /\ \A f \in DOMAIN written : ~HasTag(written[f])

\* the output of a markdown post is written
C26_Witness == \E j \in Wrote : IsMarkdown(sources[j])

----------------------------------------------------------------------------
(* C24: the output of a page does not depend on the pages rendered before  *)
(* it with the same generator, nor on the order of the jobs: with warm     *)
(* caches a page renders to the text a new generator renders it to.        *)

\* a generator as HtmlGenerator::new leaves it, at the entry of a top-level
\* call of generate_html
NewGenerator == [vis |-> {}, cc |-> <<>>, pc |-> <<>>, out |-> <<>>]

\* generate_html and load_component (html.rs:169-229) run to the end on
\* content in directory dir from the generator state g; the result holds the
\* text in out and the state the call leaves.  The exact path decides every
\* resolution in a flat tree, so the choice among the results is of one.
RECURSIVE Generated(_, _, _, _, _)
Generated(fs, bad, content, dir, g) ==
    IF NoMatch(content) THEN [g EXCEPT !.out = content]
    ELSE
      LET tag == FirstTag(content)
          name == tag.n
          entered == [g EXCEPT !.vis = Enter(g.vis, name)]
      IN  IF InProgress(g.vis, name)
          THEN Generated(fs, bad, MarkCircular(content, tag), dir, g)
          ELSE IF name \in DOMAIN g.cc
          THEN Generated(fs, bad, Substitute(content, tag, g.cc[name]), dir,
                         entered)
          ELSE
            LET r == CHOOSE r \in FindResults(fs, g.pc, dir, name) : TRUE
                looked == [entered EXCEPT !.pc = RecordPath(g.pc, dir, name, r)]
            IN  IF r = None
                THEN Generated(fs, bad,
                               Substitute(content, tag, <<NotFound(name)>>),
                               dir, looked)
                ELSE IF ~Readable(fs, bad, r[1])
                THEN Generated(fs, bad,
                               Substitute(content, tag, <<ReadFailed(name)>>),
                               dir, looked)
                ELSE
                  LET inner == Generated(fs, bad, fs[r[1]], Some(Parent(r[1])),
                                       looked)
                  IN  Generated(fs, bad, Substitute(content, tag, inner.out),
                                dir,
                                [inner EXCEPT !.cc = Insert(inner.cc, name, inner.out)])

\* what a new generator renders the page to
Fresh(content) == Generated(files, unreadable, content, None, NewGenerator).out

C24_OutputIndependent ==
    \A j \in Jobs : Rendered(j) => processed[j] = Fresh(pages[j])

\* a page was rendered after another with the same generator
C24_Witness ==
    \E j, k \in Jobs :
        /\ j # k
        /\ Rendered(j) /\ Rendered(k)
        /\ content_cache # <<>>
        /\ HasTag(pages[j]) /\ HasTag(pages[k])

----------------------------------------------------------------------------
(* C27: a component name is normalized before it is used for cycle         *)
(* detection, content caching and resolution: two names that differ only   *)
(* in the separator share one entry of the visited set, one of the content *)
(* cache and one of the path cache.                                        *)

\* no two of the keys differ only in the separator
OneEntryPerName(keys) ==
    \A k1, k2 \in keys :
        normalize_component_name(k1) = normalize_component_name(k2) => k1 = k2

C27_NamesNormalized ==
    /\ OneEntryPerName(visited)
    /\ OneEntryPerName(DOMAIN content_cache)
    /\ OneEntryPerName(DOMAIN path_cache)

\* a page that names one component with either separator is rendered
C27_Witness ==
    \E j \in Jobs :
        /\ Rendered(j)
        /\ {Tag(<<"s", "/", "b">>, "d"), Tag(<<"s", "\\", "b">>, "d")}
               \subseteq Range(pages[j])

----------------------------------------------------------------------------
(* C28: a create, modify or remove event is accepted if and only if the    *)
(* debounce interval has elapsed since the last accepted event or no event *)
(* has been accepted yet; a dropped or ignored event does not restart the  *)
(* interval, which is one for all paths.                                   *)

\* the callback is handed an event of a kind that is published
ChangeHanded ==
    events' = events + 1 /\ prev'.kind \in {"Create", "Modify", "Remove"}

C28_Step ==
    /\ ChangeHanded =>
          (accepted' = accepted + 1
              <=> (accepted = 0 \/ since_last >= debounce_duration))
    /\ (events' = events + 1 /\ accepted' = accepted) => since_last' = since_last
    /\ accepted' = accepted + 1 => since_last' = 0

C28_AcceptedIffWindowOver == [][C28_Step]_vars

\* the first event comes after the interval and is accepted, whatever its
\* path
C28_Witness ==
    /\ events = 1
    /\ accepted = 1
    /\ prev.kind = "Remove"

----------------------------------------------------------------------------
(* C29: every change published with the kind CssChange carries a path of   *)
(* extension css, and every css message sent to a client names such a      *)
(* path, also when one low-level event carries several paths.              *)

C29_Published ==
    \A i \in 1..Len(log) :
        log[i].event_type = "CssChange" => Extension(log[i].path) = ".css"

C29_Sent ==
    \A c \in Clients :
        \A i \in 1..Len(sock[c]) :
            sock[c][i].msg.type = "css" => Extension(sock[c][i].msg.arg) = ".css"

C29_CssChangeOnlyForCss == C29_Published /\ C29_Sent

\* a modify event of a page and a stylesheet was accepted, and a client was
\* sent a css message
C29_Witness ==
    /\ prev.kind = "Modify"
    /\ prev.published = 2
    /\ \E c \in Clients : \E i \in 1..Len(sock[c]) : sock[c][i].msg.type = "css"

----------------------------------------------------------------------------
(* C30: get_changed_files returns the empty set for a new server and then  *)
(* the paths of the events accepted since the server was made or           *)
(* clear_changed_files was last called; clear_changed_files empties the    *)
(* set; each path is recorded before its change is published, with or      *)
(* without a client subscribed.                                            *)

\* The set holds the paths of the events accepted since the last clear and
\* no other: every path of an event accepted after it once the callback has
\* returned, and besides those only paths of an event that was being
\* published when it was called.
C30_State ==
    /\ events = 0 => get_changed_files = {}
    /\ get_changed_files \subseteq since_clear.upto
    /\ ~Running => since_clear.after \subseteq get_changed_files

\* this step is a call of clear_changed_files
ClearStep == since_clear'.after = {} /\ since_clear' # since_clear

\* this step is the callback's send of the path at hand
SendStep == Running /\ callback[1].paths # <<>> /\ log' # log

C30_Step ==
    /\ ClearStep => changed_files' = {}
    /\ SendStep =>
          /\ callback[1].recorded
          /\ log'[Len(log')].path = Head(callback[1].paths)
    /\ changed_files' # changed_files =>
          \/ changed_files' = {}
          \/ Running /\ changed_files' = changed_files \cup {Head(callback[1].paths)}

====
